---- MODULE Spec2Model ----
(***************************************************************************)
(* A model of fastchat/serve/monitor/elo_analysis.py: the matchup encoder, *)
(* the online Elo update, the rating-scale transform, the outlier-judge    *)
(* test and the confidence-interval ranking.  Each component is a small    *)
(* state machine over its own variables; a specification runs one          *)
(* component and leaves the variables of the others at their idle values.  *)
(***************************************************************************)
EXTENDS Integers, Sequences, FiniteSets, TLC

VARIABLES
    enc_pc,        \* position in preprocess_battles_to_arrays
    enc_df,        \* its argument: the battle sequence
    enc_models,    \* models: competitors in order of first appearance
    enc_schedule,  \* schedule: one (a-index, b-index, outcome id) row per battle
    enc_out        \* the returned (matchups, outcomes, weights, models)

encVars == <<enc_pc, enc_df, enc_models, enc_schedule, enc_out>>

VARIABLES
    rank_pc,       \* position in the ranking loop of report_elo_analysis_results
    rank_order,    \* model_order: the keys of elo_rating_final
    rank_q025,     \* model_rating_q025
    rank_q975,     \* model_rating_q975
    rank_i,        \* index of the outer loop
    rank_j,        \* index of the inner loop
    ranking        \* the ranking dict

rankVars == <<rank_pc, rank_order, rank_q025, rank_q975, rank_i, rank_j, ranking>>

VARIABLES
    elo_pc,        \* position in compute_elo
    elo_calls,     \* the battle sequences of the two calls of compute_elo
    elo_call,      \* the call that is running: 1 or 2
    elo_rd,        \* rd: the row the loop is at
    elo_rating,    \* rating: the defaultdict of the running call
    elo_ret        \* what each call gave its caller

eloVars == <<elo_pc, elo_calls, elo_call, elo_rd, elo_rating, elo_ret>>

VARIABLES
    out_pc,        \* position in outlier_detect
    out_battles,   \* its argument battles
    out_stats,     \* its argument model_pair_stats
    out_max_vote,  \* its argument max_vote
    out_users_arg, \* its argument user_list: None, or a list of judges
    out_user_list, \* user_list: the judges to check
    out_u,         \* the position of the loop over user_list
    out_row,       \* the rows of df_2 the inner loop has taken
    out_p_upper,   \* p_upper
    out_p_lower,   \* p_lower
    out_flag,      \* flag
    out_bad,       \* bad_user_list
    out_ret        \* the returned battles

outVars == <<out_pc, out_battles, out_stats, out_max_vote, out_users_arg, out_user_list,
             out_u, out_row, out_p_upper, out_p_lower, out_flag, out_bad, out_ret>>

VARIABLES
    sc_pc,         \* position in scale_and_offset or fit_mle_elo
    sc_fn,         \* which of the two is running
    sc_raw,        \* ratings (scale_and_offset) or lr.coef_[0] (fit_mle_elo): rows of numbers
    sc_dim,        \* the number of axes of ratings: 1 or 2
    sc_models,     \* models: a list of names, or the Series name -> column
    sc_scaled,     \* scaled_ratings or elo_scores
    sc_out         \* the returned value

scVars == <<sc_pc, sc_fn, sc_raw, sc_dim, sc_models, sc_scaled, sc_out>>

VARIABLES
    st_pc,         \* position in construct_style_matrices and get_bootstrap_result_style_control
    st_battles,    \* df / battles: the battle sequence both are given
    st_X,          \* X: one row per battle, twice over
    st_Y,          \* Y: one label per row of X
    st_models,     \* models: the Series name -> strength column
    st_indices,    \* indices: the draw of the trial
    st_rX,         \* _X: the resampled rows
    st_rY,         \* _Y: the resampled labels
    st_lr,         \* lr.coef_[0] of the trial's fit
    st_elos,       \* elos
    st_coefs       \* coefs

styVars == <<st_pc, st_battles, st_X, st_Y, st_models, st_indices, st_rX, st_rY, st_lr,
             st_elos, st_coefs>>

VARIABLES
    bt_pc,         \* position in get_bootstrap_result_elo_mle_with_tie
    bt_df,         \* its argument df
    bt_global,     \* the module-level name battles: unbound, or bound to a frame
    bt_enc,        \* matchups, outcomes, weights, models
    bt_pvals,      \* the pvals and the n of the multinomial draw
    bt_idxs,       \* idxs: one row of draw counts per trial
    bt_results,    \* results: what pool.map returns
    bt_out         \* the returned ensemble

bootVars == <<bt_pc, bt_df, bt_global, bt_enc, bt_pvals, bt_idxs, bt_results, bt_out>>

VARIABLES
    rp_pc,         \* position in report_elo_analysis_results
    rp_args,       \* its arguments
    rp_battles,    \* battles
    rp_columns,    \* whether the frame battles has its columns
    rp_calls,      \* the battle sequences compute_elo was called with, in order
    rp_online,     \* elo_rating_online
    rp_rows        \* rows of get_bootstrap_result

repVars == <<rp_pc, rp_args, rp_battles, rp_columns, rp_calls, rp_online, rp_rows>>

vars == <<encVars, rankVars, eloVars, outVars, scVars, styVars, bootVars, repVars>>

\* What each component leaves alone: the variables of the others.
notEnc == <<rankVars, eloVars, outVars, scVars, styVars, bootVars, repVars>>
notRank == <<encVars, eloVars, outVars, scVars, styVars, bootVars, repVars>>
notElo == <<encVars, rankVars, outVars, scVars, styVars, bootVars, repVars>>
notOut == <<encVars, rankVars, eloVars, scVars, styVars, bootVars, repVars>>
notSc == <<encVars, rankVars, eloVars, outVars, styVars, bootVars, repVars>>
notSty == <<encVars, rankVars, eloVars, outVars, scVars, bootVars, repVars>>
notBoot == <<encVars, rankVars, eloVars, outVars, scVars, styVars, repVars>>
notRep == <<encVars, rankVars, eloVars, outVars, scVars, styVars, bootVars>>

----------------------------------------------------------------------------
(* Shared helpers *)

\* The largest number of battles in an encoder input.
MaxBattles == 3

\* Competitor identifiers.
Models == {"m1", "m2", "m3"}

\* The four outcome tags the program knows, and one it does not.
RecognizedWinners == {"model_a", "model_b", "tie", "tie (bothbad)"}
Winners == RecognizedWinners \cup {"unknown"}

Range(s) == {s[i] : i \in DOMAIN s}

SeqsUpTo(S, n) == UNION {[1..k -> S] : k \in 0..n}

RECURSIVE SumSeq(_)
SumSeq(s) == IF s = <<>> THEN 0 ELSE s[1] + SumSeq(Tail(s))

----------------------------------------------------------------------------
(* preprocess_battles_to_arrays *)

\* The pairs of sides of the battles in an encoder input.
EncPairs == {<<"m1", "m2">>, <<"m2", "m1">>, <<"m2", "m3">>, <<"m3", "m1">>}

\* A battle, as far as the encoder reads it.
EncBattles == {b \in [model_a : Models, model_b : Models, winner : Winners] :
                  <<b.model_a, b.model_b>> \in EncPairs}

\* df[["model_a", "model_b"]].values.ravel(): a1, b1, a2, b2, ...
Ravel(df) ==
    [k \in 1..(2 * Len(df)) |->
        IF k % 2 = 1 THEN df[(k + 1) \div 2].model_a ELSE df[k \div 2].model_b]

\* pd.unique: the values of s in order of first appearance.
RECURSIVE PdUnique(_)
PdUnique(s) ==
    IF s = <<>> THEN <<>>
    ELSE LET n == Len(s)
             front == PdUnique(SubSeq(s, 1, n - 1))
         IN  IF s[n] \in Range(front) THEN front ELSE Append(front, s[n])

\* model_to_idx: the 0-based position of a model in models.
ModelToIdx(models, m) == (CHOOSE i \in DOMAIN models : models[i] = m) - 1

\* np.select([winner == "model_a", winner == "model_b"], [2, 0], default=1)
OutcomeId(winner) ==
    IF winner = "model_a" THEN 2
    ELSE IF winner = "model_b" THEN 0
    ELSE 1

\* One row of schedule.
ScheduleRow(models, b) ==
    <<ModelToIdx(models, b.model_a), ModelToIdx(models, b.model_b), OutcomeId(b.winner)>>

\* Lexicographic order of the rows, as np.unique(axis=0) sorts them.
RowLess(r, s) ==
    \/ r[1] < s[1]
    \/ r[1] = s[1] /\ r[2] < s[2]
    \/ r[1] = s[1] /\ r[2] = s[2] /\ r[3] < s[3]

RECURSIVE SortRows(_)
SortRows(S) ==
    IF S = {} THEN <<>>
    ELSE LET lo == CHOOSE r \in S : \A s \in S \ {r} : RowLess(r, s)
         IN  <<lo>> \o SortRows(S \ {lo})

\* A mutant of RowCount: return_counts left out, every row counted once.
RowCountOnce(schedule, row) == 1

\* The count np.unique(return_counts=True) gives a distinct row.
RowCount(schedule, row) == Cardinality({i \in DOMAIN schedule : schedule[i] = row})

\* np.unique(schedule, return_counts=True, axis=0) and the split into the
\* returned arrays; an outcome label is the outcome id over 2.
NpUnique(schedule, models) ==
    LET rows == SortRows(Range(schedule))
    IN  [matchups |-> [k \in DOMAIN rows |-> <<rows[k][1], rows[k][2]>>],
         outcomes |-> [k \in DOMAIN rows |-> [num |-> rows[k][3], den |-> 2]],
         weights  |-> [k \in DOMAIN rows |-> RowCount(schedule, rows[k])],
         models   |-> models]

NoOut == [matchups |-> <<>>, outcomes |-> <<>>, weights |-> <<>>, models |-> <<>>]

EncInit ==
    /\ enc_pc = "models"
    /\ enc_df \in SeqsUpTo(EncBattles, MaxBattles)
    /\ enc_models = <<>>
    /\ enc_schedule = <<>>
    /\ enc_out = NoOut

EncIdle ==
    /\ enc_pc = "idle"
    /\ enc_df = <<>>
    /\ enc_models = <<>>
    /\ enc_schedule = <<>>
    /\ enc_out = NoOut

\* lines 74-75
EncModels ==
    /\ enc_pc = "models"
    /\ enc_models' = PdUnique(Ravel(enc_df))
    /\ enc_pc' = "schedule"
    /\ UNCHANGED <<enc_df, enc_schedule, enc_out, notEnc>>

\* lines 77-88
EncSchedule ==
    /\ enc_pc = "schedule"
    /\ enc_schedule' = [i \in DOMAIN enc_df |-> ScheduleRow(enc_models, enc_df[i])]
    /\ enc_pc' = "unique"
    /\ UNCHANGED <<enc_df, enc_models, enc_out, notEnc>>

\* lines 90-96
EncUnique ==
    /\ enc_pc = "unique"
    /\ enc_out' = NpUnique(enc_schedule, enc_models)
    /\ enc_pc' = "done"
    /\ UNCHANGED <<enc_df, enc_models, enc_schedule, notEnc>>

EncNext == EncModels \/ EncSchedule \/ EncUnique

----------------------------------------------------------------------------
(* The ranking of report_elo_analysis_results, lines 678-691 *)

\* The largest quantile value of a ranking input.
MaxQuantile == 3

EmptyDict == [x \in {} |-> 0]

\* The sequences that list every element of S once.
Orderings(S) ==
    {s \in [1..Cardinality(S) -> S] : \A i, j \in DOMAIN s : i # j => s[i] # s[j]}

\* A mutant of RankWorse: the two competitors' roles exchanged.
RankWorseSwapped(q025, q975, model_a, model_b) == q025[model_a] > q975[model_b]

\* A mutant of RankWorse: equal bounds counted too.
RankWorseOrEqual(q025, q975, model_a, model_b) == q025[model_b] >= q975[model_a]

\* line 690: model_b counts against model_a
RankWorse(q025, q975, model_a, model_b) == q025[model_b] > q975[model_a]

RankIdle ==
    /\ rank_pc = "idle"
    /\ rank_order = <<>>
    /\ rank_q025 = EmptyDict
    /\ rank_q975 = EmptyDict
    /\ rank_i = 0
    /\ rank_j = 0
    /\ ranking = EmptyDict

\* The quantiles of one bootstrap table: q025 is at most q975 for each column.
RankInit ==
    /\ rank_pc = "outer"
    /\ rank_order \in UNION {Orderings(S) : S \in SUBSET Models}
    /\ rank_q025 \in [Models -> 1..MaxQuantile]
    /\ rank_q975 \in [Models -> 1..MaxQuantile]
    /\ \A m \in Models : rank_q025[m] <= rank_q975[m]
    /\ rank_i = 1
    /\ rank_j = 0
    /\ ranking = EmptyDict

\* lines 685-686: the next model_a, or the end of the loop
RankOuter ==
    /\ rank_pc = "outer"
    /\ IF rank_i <= Len(rank_order)
       THEN /\ ranking' = (rank_order[rank_i] :> 1) @@ ranking
            /\ rank_j' = 1
            /\ rank_pc' = "inner"
       ELSE /\ rank_pc' = "done"
            /\ UNCHANGED <<rank_j, ranking>>
    /\ UNCHANGED <<rank_order, rank_q025, rank_q975, rank_i, notRank>>

\* lines 687-691: one model_b
RankInner ==
    /\ rank_pc = "inner"
    /\ IF rank_j <= Len(rank_order)
       THEN LET model_a == rank_order[rank_i]
                model_b == rank_order[rank_j]
            IN  /\ ranking' =
                      IF rank_i # rank_j /\ RankWorse(rank_q025, rank_q975, model_a, model_b)
                      THEN [ranking EXCEPT ![model_a] = @ + 1]
                      ELSE ranking
                /\ rank_j' = rank_j + 1
                /\ UNCHANGED <<rank_i, rank_pc>>
       ELSE /\ rank_i' = rank_i + 1
            /\ rank_pc' = "outer"
            /\ UNCHANGED <<rank_j, ranking>>
    /\ UNCHANGED <<rank_order, rank_q025, rank_q975, notRank>>

RankNext == RankOuter \/ RankInner

----------------------------------------------------------------------------
(* compute_elo, lines 38-59 *)

\* The largest number of battles in an input of compute_elo.
MaxEloBattles == 2

\* The defaults of compute_elo's parameters.
K == 4
SCALE == 400
INIT_RATING == 1000

\* Ratings are fixed-point numbers: thousandths of a rating point.
EloUnit == 10 * 10 * 10

\* A score (expected or actual) is a fixed-point number in millionths.
EloOne == EloUnit * EloUnit

\* ln(BASE) in millionths, for BASE = 10.
LN_BASE == 2302585

\* The expected score ea = 1 / (1 + BASE ** ((rb - ra) / SCALE)) of the side
\* rated ra against the side rated rb, in millionths.  The logistic curve is
\* taken to first order at ra = rb, 1/2 + ln(BASE) * (ra - rb) / (4 * SCALE):
\* within MaxEloBattles + 1 battles two ratings are less than 30 points apart,
\* where this is within 0.0001 of the curve.
EloExpected(ra, rb) == EloOne \div 2 + ((LN_BASE \div (4 * SCALE)) * (ra - rb)) \div EloUnit

\* sa of a recognized outcome, in millionths (lines 48-53).
EloActual(winner) ==
    IF winner = "model_a" THEN EloOne
    ELSE IF winner = "model_b" THEN 0
    ELSE EloOne \div 2

\* A mutant of EloStep: the step halves after the first battle.
EloStepDecaying(rd) == IF rd = 1 THEN K ELSE K \div 2

\* The step of the update at row rd: K for every battle (lines 56-57).
EloStep(rd) == K

\* K * (score - expected), in thousandths of a point.
EloDelta(rd, score, expected) == (EloStep(rd) * (score - expected)) \div EloUnit

\* rating[m] of the defaultdict: INIT_RATING for a key that is not there.
EloGet(rating, m) == IF m \in DOMAIN rating THEN rating[m] ELSE INIT_RATING * EloUnit

\* The defaultdict after rating[model_a] and rating[model_b] were read (lines 44-45).
EloRead(rating, b) ==
    [m \in DOMAIN rating \cup {b.model_a, b.model_b} |-> EloGet(rating, m)]

\* The defaultdict after the battle at row rd (lines 44-57).
EloUpdated(rating, rd, b) ==
    LET ra == EloGet(rating, b.model_a)
        rb == EloGet(rating, b.model_b)
        ea == EloExpected(ra, rb)
        eb == EloExpected(rb, ra)
        sa == EloActual(b.winner)
        r1 == [EloRead(rating, b) EXCEPT ![b.model_a] = @ + EloDelta(rd, sa, ea)]
    IN  [r1 EXCEPT ![b.model_b] = @ + EloDelta(rd, EloOne - sa, eb)]

EloModels == Models \cup {"m4"}

\* The pairs of sides of the battles in an input.
EloPairs == {<<"m1", "m2">>, <<"m2", "m1">>, <<"m1", "m3">>, <<"m3", "m4">>}

Tstamps == {1, 2}

EloBattles ==
    {b \in [model_a : EloModels, model_b : EloModels, winner : Winners, tstamp : Tstamps] :
        <<b.model_a, b.model_b>> \in EloPairs}

\* Battles in non-decreasing timestamp order, as sort_values leaves them (line 627).
SortedByTstamp(s) == \A i, j \in DOMAIN s : i < j => s[i].tstamp <= s[j].tstamp

\* The sequences that list the battles of s in some order.
Reorderings(s) == {[i \in DOMAIN s |-> s[p[i]]] : p \in Orderings(DOMAIN s)}

NoRet == [kind |-> "none", rating |-> EmptyDict]

EloIdle ==
    /\ elo_pc = "idle"
    /\ elo_calls = <<>>
    /\ elo_call = 0
    /\ elo_rd = 0
    /\ elo_rating = EmptyDict
    /\ elo_ret = <<>>

\* Two calls: on a sorted battle sequence, and on the same battles in an
\* order that is sorted too (battles of one timestamp reordered).
EloInit ==
    /\ elo_pc = "loop"
    /\ \E s \in SeqsUpTo(EloBattles, MaxEloBattles) :
          /\ SortedByTstamp(s)
          /\ \E t \in Reorderings(s) :
                /\ SortedByTstamp(t)
                /\ elo_calls = <<s, t>>
    /\ elo_call = 1
    /\ elo_rd = 1
    /\ elo_rating = EmptyDict
    /\ elo_ret = <<NoRet, NoRet>>

EloRow == elo_calls[elo_call][elo_rd]

\* lines 41-57: a battle with a recognized outcome
EloUpdate ==
    /\ elo_pc = "loop"
    /\ elo_rd <= Len(elo_calls[elo_call])
    /\ EloRow.winner \in {"model_a", "model_b", "tie", "tie (bothbad)"}
    /\ elo_rating' = EloUpdated(elo_rating, elo_rd, EloRow)
    /\ elo_rd' = elo_rd + 1
    /\ UNCHANGED <<elo_pc, elo_calls, elo_call, elo_ret, notElo>>

\* A mutant of EloRaise: the loop is left and the table so far is returned.
EloBreak ==
    /\ elo_pc = "loop"
    /\ elo_rd <= Len(elo_calls[elo_call])
    /\ EloRow.winner \notin {"model_a", "model_b", "tie", "tie (bothbad)"}
    /\ elo_rating' = EloRead(elo_rating, EloRow)
    /\ elo_ret' = [elo_ret EXCEPT ![elo_call] = [kind |-> "dict", rating |-> elo_rating']]
    /\ elo_pc' = "returned"
    /\ UNCHANGED <<elo_calls, elo_call, elo_rd, notElo>>

\* lines 44-55: a battle with any other outcome raises; the caller gets no value
EloRaise ==
    /\ elo_pc = "loop"
    /\ elo_rd <= Len(elo_calls[elo_call])
    /\ EloRow.winner \notin {"model_a", "model_b", "tie", "tie (bothbad)"}
    /\ elo_rating' = EloRead(elo_rating, EloRow)
    /\ elo_ret' = [elo_ret EXCEPT ![elo_call] = [kind |-> "raised", rating |-> EmptyDict]]
    /\ elo_pc' = "raised"
    /\ UNCHANGED <<elo_calls, elo_call, elo_rd, notElo>>

\* line 59
EloReturn ==
    /\ elo_pc = "loop"
    /\ elo_rd > Len(elo_calls[elo_call])
    /\ elo_ret' = [elo_ret EXCEPT ![elo_call] = [kind |-> "dict", rating |-> elo_rating]]
    /\ elo_pc' = "returned"
    /\ UNCHANGED <<elo_calls, elo_call, elo_rd, elo_rating, notElo>>

\* The second call starts, with a defaultdict of its own (line 39).
EloCallAgain ==
    /\ elo_pc \in {"returned", "raised"}
    /\ elo_call = 1
    /\ elo_call' = 2
    /\ elo_rd' = 1
    /\ elo_rating' = EmptyDict
    /\ elo_pc' = "loop"
    /\ UNCHANGED <<elo_calls, elo_ret, notElo>>

EloNext == EloUpdate \/ EloRaise \/ EloReturn \/ EloCallAgain

----------------------------------------------------------------------------
(* outlier_detect, lines 402-471, with randomized=False and alpha=0.05 *)

\* The largest number of battles in an input of outlier_detect.
MaxOutBattles == 6

\* 1 / alpha for the default alpha = 0.05 (lines 407, 459).
INV_ALPHA == 20

\* A judge is checked from this many votes on (line 414).
MIN_VOTES == 5

Judges == {"u1", "u2"}

\* The battles of an input, all on the pair (m1, m2): judge u1 votes for m1,
\* for m2 or a tie, judge u2 votes for m1 from the other side.
OutBattles ==
    {[judge |-> "u1", model_a |-> "m1", model_b |-> "m2", winner |-> "model_a"],
     [judge |-> "u1", model_a |-> "m1", model_b |-> "m2", winner |-> "model_b"],
     [judge |-> "u1", model_a |-> "m1", model_b |-> "m2", winner |-> "tie"],
     [judge |-> "u2", model_a |-> "m2", model_b |-> "m1", winner |-> "model_b"]}

\* The win, loss and tie counts of the pair (m1, m2) in a model_pair_stats
\* the caller took from another battle set.
OutStats == {[win |-> 3, loss |-> 1, tie |-> 1], [win |-> 1, loss |-> 4, tie |-> 0]}

\* max_vote: a small cap, and the default.
OutMaxVotes == {4, 100}

\* user_list: None (the default), or a list the caller gives.
NoUserList == [given |-> FALSE, list |-> <<>>]
OutUserLists == {NoUserList, [given |-> TRUE, list |-> <<"u2">>]}

\* tuple(sorted([model_a, model_b])) (line 427); the identifiers sort as m1 < m2 < m3.
ModelRank(m) == CHOOSE i \in 1..3 : m = <<"m1", "m2", "m3">>[i]
SortedPair(b) ==
    IF ModelRank(b.model_a) <= ModelRank(b.model_b)
    THEN <<b.model_a, b.model_b>> ELSE <<b.model_b, b.model_a>>

\* vote, in halves: 2 for the first of the sorted pair, 1 for a tie, else 0 (lines 429-436).
OutVoteOf(b) ==
    IF b.winner \in {"tie", "tie (bothbad)"} THEN 1
    ELSE IF b.winner = "model_a" /\ b.model_a = SortedPair(b)[1] THEN 2
    ELSE IF b.winner = "model_b" /\ b.model_b = SortedPair(b)[1] THEN 2
    ELSE 0

\* (ratings <= vote).mean() for ratings = [1] * win + [0] * loss (lines 445, 451),
\* as a fraction; the mean of an empty array (den = 0) is nan.
PUpper(stats, vote) ==
    [num |-> IF vote = 2 THEN stats.win + stats.loss ELSE stats.loss,
     den |-> stats.win + stats.loss]

\* A mutant of PLower: ratings > vote.
PLowerStrict(stats, vote) ==
    [num |-> IF vote = 0 THEN stats.win ELSE 0,
     den |-> stats.win + stats.loss]

\* (ratings >= vote).mean() (line 452)
PLower(stats, vote) ==
    [num |-> IF vote = 0 THEN stats.win + stats.loss ELSE stats.win,
     den |-> stats.win + stats.loss]

RECURSIVE ProdNum2(_)
ProdNum2(ps) == IF ps = <<>> THEN 1 ELSE 2 * ps[1].num * ProdNum2(Tail(ps))

RECURSIVE ProdDen(_)
ProdDen(ps) == IF ps = <<>> THEN 1 ELSE ps[1].den * ProdDen(Tail(ps))

\* np.prod(1 / (2 * np.array(ps))) > 1 / alpha (lines 454-459): the product is
\* nan, and the comparison false, when some p is nan; it is inf when some p is 0.
OutExceeds(ps) ==
    IF \E i \in DOMAIN ps : ps[i].den = 0 THEN FALSE
    ELSE IF \E i \in DOMAIN ps : ps[i].num = 0 THEN TRUE
    ELSE (ProdDen(ps) - 1) \div INV_ALPHA >= ProdNum2(ps)

\* battles[battles["judge"] == user]
RowsOf(battles, user) == SelectSeq(battles, LAMBDA b : b.judge = user)

VoteCount(battles, user) == Len(RowsOf(battles, user))

\* A mutant of DefaultUserList: judges are checked from MIN_VOTES - 1 votes on.
DefaultUserListEarly(battles) ==
    SelectSeq(PdUnique([i \in DOMAIN battles |-> battles[i].judge]),
              LAMBDA u : VoteCount(battles, u) >= MIN_VOTES - 1)

\* value_counts() cut to the judges with at least 5 votes (lines 413-414).  The
\* order among the judges is of no effect here: at most one judge can have 5
\* of at most MaxOutBattles + 1 votes.
DefaultUserList(battles) ==
    SelectSeq(PdUnique([i \in DOMAIN battles |-> battles[i].judge]),
              LAMBDA u : VoteCount(battles, u) >= MIN_VOTES)

BadIds(bad) == {bad[i].user_id : i \in DOMAIN bad}

\* A mutant of OutKeep: only the votes the test inspected are removed.
OutKeepUninspected(battles, bad) ==
    LET inspected(i) ==
            \E k \in DOMAIN bad :
                /\ bad[k].user_id = battles[i].judge
                /\ Len(RowsOf(SubSeq(battles, 1, i), battles[i].judge)) <= bad[k].votes
        keep == {i \in DOMAIN battles : ~inspected(i)}
        RECURSIVE pick(_)
        pick(i) == IF i > Len(battles) THEN <<>>
                   ELSE (IF i \in keep THEN <<battles[i]>> ELSE <<>>) \o pick(i + 1)
    IN  pick(1)

\* battles[~battles["judge"].isin(bad_user_id_list)] (lines 468-470)
OutKeep(battles, bad) == SelectSeq(battles, LAMBDA b : b.judge \notin BadIds(bad))

\* get_model_pair_stats (lines 378-399): the win, loss and tie counts of
\* every sorted pair, win being a win of the first of the pair.
RECURSIVE GetModelPairStats(_)
GetModelPairStats(battles) ==
    IF battles = <<>> THEN [pair \in {} |-> [win |-> 0, loss |-> 0, tie |-> 0]]
    ELSE LET n == Len(battles)
             row == battles[n]
             pair == SortedPair(row)
             before == GetModelPairStats(SubSeq(battles, 1, n - 1))
             old == IF pair \in DOMAIN before THEN before[pair]
                    ELSE [win |-> 0, loss |-> 0, tie |-> 0]
             new == IF row.winner \in {"tie", "tie (bothbad)"}
                        THEN [old EXCEPT !.tie = @ + 1]
                    ELSE IF row.winner = "model_a" /\ row.model_a = pair[1]
                        THEN [old EXCEPT !.win = @ + 1]
                    ELSE IF row.winner = "model_b" /\ row.model_b = pair[1]
                        THEN [old EXCEPT !.win = @ + 1]
                    ELSE [old EXCEPT !.loss = @ + 1]
         IN  [q \in DOMAIN before \cup {pair} |-> IF q = pair THEN new ELSE before[q]]

\* model_pair_stats[("m1", "m2")] as report_elo_analysis_results passes it
\* (lines 652-653): the statistics of the battles themselves.
OwnStats(battles) ==
    IF battles = <<>> THEN [win |-> 0, loss |-> 0, tie |-> 0]
    ELSE GetModelPairStats(battles)[<<"m1", "m2">>]

OutIdle ==
    /\ out_pc = "idle"
    /\ out_battles = <<>>
    /\ out_stats = [win |-> 0, loss |-> 0, tie |-> 0]
    /\ out_max_vote = 0
    /\ out_users_arg = NoUserList
    /\ out_user_list = <<>>
    /\ out_u = 0
    /\ out_row = 0
    /\ out_p_upper = <<>>
    /\ out_p_lower = <<>>
    /\ out_flag = FALSE
    /\ out_bad = <<>>
    /\ out_ret = <<>>

OutInit ==
    /\ out_pc = "start"
    /\ out_battles \in SeqsUpTo(OutBattles, MaxOutBattles)
    /\ out_stats \in OutStats \cup {OwnStats(out_battles)}   \* line 652, or the caller's
    /\ out_max_vote \in OutMaxVotes
    /\ out_users_arg \in OutUserLists
    /\ out_user_list = <<>>
    /\ out_u = 0
    /\ out_row = 0
    /\ out_p_upper = <<>>
    /\ out_p_lower = <<>>
    /\ out_flag = FALSE
    /\ out_bad = <<>>
    /\ out_ret = <<>>

\* lines 411-417
OutUserList ==
    /\ out_pc = "start"
    /\ out_user_list' = IF out_users_arg.given THEN out_users_arg.list
                        ELSE DefaultUserList(out_battles)
    /\ out_u' = 1
    /\ out_pc' = "users"
    /\ UNCHANGED <<out_battles, out_stats, out_max_vote, out_users_arg, out_row,
                   out_p_upper, out_p_lower, out_flag, out_bad, out_ret, notOut>>

\* lines 418-422: the next user
OutBeginUser ==
    /\ out_pc = "users"
    /\ out_u <= Len(out_user_list)
    /\ out_flag' = FALSE
    /\ out_p_upper' = <<>>
    /\ out_p_lower' = <<>>
    /\ out_row' = 0
    /\ out_pc' = "votes"
    /\ UNCHANGED <<out_battles, out_stats, out_max_vote, out_users_arg, out_user_list,
                   out_u, out_bad, out_ret, notOut>>

\* df_2 of the user the outer loop is at (line 422)
OutDf2 == RowsOf(out_battles, out_user_list[out_u])

\* lines 423-462: one vote of the user; the loop is left when a product
\* exceeds 1 / alpha
OutVote ==
    /\ out_pc = "votes"
    /\ out_row < Len(OutDf2)
    /\ Len(out_p_upper) < out_max_vote
    /\ LET vote == OutVoteOf(OutDf2[out_row + 1])
           p_upper == Append(out_p_upper, PUpper(out_stats, vote))
           p_lower == Append(out_p_lower, PLower(out_stats, vote))
           exceeds == OutExceeds(p_upper) \/ OutExceeds(p_lower)
       IN  /\ out_p_upper' = p_upper
           /\ out_p_lower' = p_lower
           /\ out_row' = out_row + 1
           /\ out_flag' = exceeds
           /\ out_pc' = IF exceeds THEN "enduser" ELSE "votes"
    /\ UNCHANGED <<out_battles, out_stats, out_max_vote, out_users_arg, out_user_list,
                   out_u, out_bad, out_ret, notOut>>

\* lines 423-425: df_2 is exhausted, or max_vote votes were taken
OutLoopEnd ==
    /\ out_pc = "votes"
    /\ out_row >= Len(OutDf2) \/ Len(out_p_upper) >= out_max_vote
    /\ out_pc' = "enduser"
    /\ UNCHANGED <<out_battles, out_stats, out_max_vote, out_users_arg, out_user_list,
                   out_u, out_row, out_p_upper, out_p_lower, out_flag, out_bad, out_ret,
                   notOut>>

\* lines 463-464
OutEndUser ==
    /\ out_pc = "enduser"
    /\ out_bad' = IF out_flag
                  THEN Append(out_bad, [user_id |-> out_user_list[out_u],
                                        votes |-> Len(out_p_upper)])
                  ELSE out_bad
    /\ out_u' = out_u + 1
    /\ out_pc' = "users"
    /\ UNCHANGED <<out_battles, out_stats, out_max_vote, out_users_arg, out_user_list,
                   out_row, out_p_upper, out_p_lower, out_flag, out_ret, notOut>>

\* lines 468-471
OutReturn ==
    /\ out_pc = "users"
    /\ out_u > Len(out_user_list)
    /\ out_ret' = OutKeep(out_battles, out_bad)
    /\ out_pc' = "done"
    /\ UNCHANGED <<out_battles, out_stats, out_max_vote, out_users_arg, out_user_list,
                   out_u, out_row, out_p_upper, out_p_lower, out_flag, out_bad, notOut>>

OutNext == OutUserList \/ OutBeginUser \/ OutVote \/ OutLoopEnd \/ OutEndUser \/ OutReturn

----------------------------------------------------------------------------
(* scale_and_offset, lines 137-150, and fit_mle_elo, lines 474-492 *)

\* Raw ratings and fitted coefficients are the integers -MaxRaw..MaxRaw.
MaxRaw == 1

\* baseline_rating (line 143), the 1114 of line 488.
BASELINE_RATING == 1114

\* The number of style columns of X: half of STYLE_CONTROL_ELEMENTS_V1 (line 510).
STYLE_COLUMNS == 4

\* baseline_model (line 142), the anchor of line 487.
ANCHOR == "mixtral-8x7b-instruct-v0.1"

ScaleNames == {ANCHOR, "m1", "m2"}

RawValues == (0 - MaxRaw)..MaxRaw

\* models.index(name): the 1-based position of a name in a list.
ListIndex(models, name) == CHOOSE i \in DOMAIN models : models[i] = name

\* ratings * scale + init_rating (lines 146, 485), row by row.
Affine(rows) == [r \in DOMAIN rows |-> [i \in DOMAIN rows[r] |-> rows[r][i] * SCALE + INIT_RATING]]

\* scaled_ratings += baseline_rating - scaled_ratings[..., [baseline_idx]]
\* (lines 149, 488): each row is shifted by its own anchor entry.
AnchorShift(rows, idx) ==
    [r \in DOMAIN rows |->
        [i \in DOMAIN rows[r] |-> rows[r][i] + (BASELINE_RATING - rows[r][idx])]]

\* The Series models of construct_style_matrices (lines 502-503) for a registry.
FullSeries(registry) == [i \in DOMAIN registry |-> [name |-> registry[i], col |-> i]]

\* models[~states] (line 589): the entries of the competitors that are present.
SubSeries(series, present) == SelectSeq(series, LAMBDA e : e.name \in present)

SeriesIndex(series) == {series[i].name : i \in DOMAIN series}

\* models[name]: the column the Series holds for a name.
SeriesCol(series, name) == series[CHOOSE i \in DOMAIN series : series[i].name = name].col

NoFitOut == [elo |-> EmptyDict, coef |-> <<>>]

ScIdle ==
    /\ sc_pc = "idle"
    /\ sc_fn = "none"
    /\ sc_raw = <<>>
    /\ sc_dim = 0
    /\ sc_models = <<>>
    /\ sc_scaled = <<>>
    /\ sc_out = <<>>

\* A call of scale_and_offset with a rating vector or an ensemble of two trials.
ScaleInit ==
    /\ sc_pc = "affine"
    /\ sc_fn = "scale_and_offset"
    /\ sc_models \in UNION {Orderings(S) : S \in SUBSET ScaleNames \ {{}}}
    /\ sc_dim \in {1, 2}
    /\ sc_raw \in [1..sc_dim -> [DOMAIN sc_models -> RawValues]]
    /\ sc_scaled = <<>>
    /\ sc_out = <<>>

\* A call of fit_mle_elo whose X has one column per competitor of a registry
\* and STYLE_COLUMNS style columns: with the full Series (line 665), or with
\* the Series of the competitors present in a resample (line 589).
FitInit ==
    /\ sc_pc = "fit"
    /\ sc_fn = "fit_mle_elo"
    /\ \E registry \in Orderings(ScaleNames) :
       \E present \in SUBSET ScaleNames \ {{}} :
          sc_models = SubSeries(FullSeries(registry), present)
    /\ sc_dim = 1
    /\ sc_raw = <<>>
    /\ sc_scaled = <<>>
    /\ sc_out = NoFitOut

\* line 146
ScaleAffine ==
    /\ sc_pc = "affine"
    /\ sc_fn = "scale_and_offset"
    /\ sc_scaled' = Affine(sc_raw)
    /\ sc_pc' = "anchor"
    /\ UNCHANGED <<sc_fn, sc_raw, sc_dim, sc_models, sc_out, notSc>>

\* lines 147-149
ScaleAnchor ==
    /\ sc_pc = "anchor"
    /\ sc_fn = "scale_and_offset"
    /\ sc_scaled' = IF ANCHOR \in Range(sc_models)
                    THEN AnchorShift(sc_scaled, ListIndex(sc_models, ANCHOR))
                    ELSE sc_scaled
    /\ sc_pc' = "return"
    /\ UNCHANGED <<sc_fn, sc_raw, sc_dim, sc_models, sc_out, notSc>>

\* line 150
ScaleReturn ==
    /\ sc_pc = "return"
    /\ sc_fn = "scale_and_offset"
    /\ sc_out' = sc_scaled
    /\ sc_pc' = "done"
    /\ UNCHANGED <<sc_fn, sc_raw, sc_dim, sc_models, sc_scaled, notSc>>

\* lines 479-483: the regression gives one coefficient per column of X; the
\* style coefficients are 0 or 1 here
FitRegress ==
    /\ sc_pc = "fit"
    /\ \E strength \in [1..Cardinality(ScaleNames) -> RawValues] :
       \E style \in [1..STYLE_COLUMNS -> {0, 1}] :
          sc_raw' = <<strength \o style>>
    /\ sc_pc' = "affine"
    /\ UNCHANGED <<sc_fn, sc_dim, sc_models, sc_scaled, sc_out, notSc>>

\* line 485
FitAffine ==
    /\ sc_pc = "affine"
    /\ sc_fn = "fit_mle_elo"
    /\ sc_scaled' = Affine(sc_raw)
    /\ sc_pc' = "anchor"
    /\ UNCHANGED <<sc_fn, sc_raw, sc_dim, sc_models, sc_out, notSc>>

\* lines 487-488
FitAnchor ==
    /\ sc_pc = "anchor"
    /\ sc_fn = "fit_mle_elo"
    /\ sc_scaled' = IF ANCHOR \in SeriesIndex(sc_models)
                    THEN AnchorShift(sc_scaled, SeriesCol(sc_models, ANCHOR))
                    ELSE sc_scaled
    /\ sc_pc' = "return"
    /\ UNCHANGED <<sc_fn, sc_raw, sc_dim, sc_models, sc_out, notSc>>

\* pd.Series(elo_scores[:p], index=models.index): the i-th entry of
\* elo_scores under the i-th name of models.index (line 490).  sort_values
\* reorders the Series and leaves the value of each label.
FitSeries(elo_scores, series) ==
    [name \in SeriesIndex(series) |->
        elo_scores[CHOOSE i \in DOMAIN series : series[i].name = name]]

\* lines 477, 489-492
FitReturn ==
    /\ sc_pc = "return"
    /\ sc_fn = "fit_mle_elo"
    /\ LET p == Len(sc_models)
       IN  sc_out' = [elo  |-> FitSeries(SubSeq(sc_scaled[1], 1, p), sc_models),
                      coef |-> SubSeq(sc_raw[1], p + 1, Len(sc_raw[1]))]
    /\ sc_pc' = "done"
    /\ UNCHANGED <<sc_fn, sc_raw, sc_dim, sc_models, sc_scaled, notSc>>

ScNext ==
    ScaleAffine \/ ScaleAnchor \/ ScaleReturn \/ FitRegress \/ FitAffine \/ FitAnchor \/ FitReturn

----------------------------------------------------------------------------
(* construct_style_matrices, lines 495-555, and                            *)
(* get_bootstrap_result_style_control, lines 558-594, whose trials call    *)
(* fit_mle_elo, lines 474-492                                              *)

\* The largest number of battles in a style-control input.
MaxStyleBattles == 2

\* num_round: the number of trials of a call.
StyleNumRound == 1

\* The pairs of sides of the battles in a style-control input.
StylePairs == {<<"m1", "m2">>, <<"m2", ANCHOR>>}

\* A battle, as far as construct_style_matrices reads it.  style stands for
\* the battle's standardized style difference, which X repeats in every style
\* column: the arithmetic of lines 517-543 is not modelled.
StyleBattles ==
    {b \in [model_a : {"m1", "m2"}, model_b : {"m2", ANCHOR},
            winner : RecognizedWinners, style : {0 - 1, 1}] :
        /\ <<b.model_a, b.model_b>> \in StylePairs
        /\ b.style = 1 <=> b.model_a = "m1"}

\* The coefficients a fit can give a strength column, and the two
\* coefficient blocks it can give the style columns.
StyleCoefs == {0, 1}
StyleBlocks == {[c \in 1..STYLE_COLUMNS |-> v] : v \in StyleCoefs}

\* pd.concat([df["model_a"], df["model_b"]]): every model_a, then every model_b.
ConcatSides(df) ==
    [i \in DOMAIN df |-> df[i].model_a] \o [i \in DOMAIN df |-> df[i].model_b]

\* One row of X (lines 512-514, 543), strength entries in units of log(BASE);
\* the assignment of model_b comes second.
StyleRow(series, b) ==
    [c \in 1..(Len(series) + STYLE_COLUMNS) |->
        IF c > Len(series) THEN b.style
        ELSE IF c = SeriesCol(series, b.model_b) THEN 0 - 1
        ELSE IF c = SeriesCol(series, b.model_a) THEN 1
        ELSE 0]

IsTie(b) == b.winner \in {"tie", "tie (bothbad)"}

\* A mutant of StyleTieIdx: the second half of tie_idx is not cleared.
StyleTieIdxBothHalves(df2, r) == IsTie(df2[r])

\* tie_idx of lines 551-552 at row r of the doubled frame.
StyleTieIdx(df2, r) == IsTie(df2[r]) /\ r <= Len(df2) \div 2

\* Y of lines 546-553
StyleY(df2) ==
    [r \in DOMAIN df2 |->
        IF df2[r].winner = "model_a" \/ StyleTieIdx(df2, r) THEN 1 ELSE 0]

\* A[idx]: the rows of A at the positions idx, in the order of idx.
Gather(A, idx) == [j \in DOMAIN idx |-> A[idx[j]]]

\* nontie_indices (line 577)
NontieIndices(battles, indices) == SelectSeq(indices, LAMBDA i : ~IsTie(battles[i]))

\* tie_indices (lines 578-580)
TieIndices(battles, indices) ==
    LET ties == SelectSeq(indices, LAMBDA i : IsTie(battles[i]))
    IN  ties \o [j \in DOMAIN ties |-> ties[j] + Len(battles)]

\* np.concatenate([A[nontie_indices], A[nontie_indices], A[tie_indices]]) (lines 582-583)
Resample(A, battles, indices) ==
    LET nontie == Gather(A, NontieIndices(battles, indices))
    IN  nontie \o nontie \o Gather(A, TieIndices(battles, indices))

\* The competitors with a nonzero entry in their column of _X: the
\* complement of states (line 587).
StylePresent(rX, series) ==
    {series[i].name : i \in {c \in DOMAIN series : \E r \in DOMAIN rX : rX[r][series[c].col] # 0}}

StyleIdle ==
    /\ st_pc = "idle"
    /\ st_battles = <<>>
    /\ st_X = <<>>
    /\ st_Y = <<>>
    /\ st_models = <<>>
    /\ st_indices = <<>>
    /\ st_rX = <<>>
    /\ st_rY = <<>>
    /\ st_lr = <<>>
    /\ st_elos = <<>>
    /\ st_coefs = <<>>

StyleInit ==
    /\ st_pc = "construct"
    /\ st_battles \in SeqsUpTo(StyleBattles, MaxStyleBattles) \ {<<>>}
    /\ st_X = <<>>
    /\ st_Y = <<>>
    /\ st_models = <<>>
    /\ st_indices = <<>>
    /\ st_rX = <<>>
    /\ st_rY = <<>>
    /\ st_lr = <<>>
    /\ st_elos = <<>>
    /\ st_coefs = <<>>

\* construct_style_matrices, lines 502-555
StyleConstruct ==
    /\ st_pc = "construct"
    /\ LET models == FullSeries(PdUnique(ConcatSides(st_battles)))
           df2 == st_battles \o st_battles
       IN  /\ st_models' = models
           /\ st_X' = [r \in DOMAIN df2 |-> StyleRow(models, df2[r])]
           /\ st_Y' = StyleY(df2)
    /\ st_pc' = "draw"
    /\ UNCHANGED <<st_battles, st_indices, st_rX, st_rY, st_lr, st_elos, st_coefs, notSty>>

\* lines 563-572: a trial draws k of the k battles, with replacement
StyleDraw ==
    /\ st_pc = "draw"
    /\ Len(st_X) % 2 = 0 /\ Len(st_X) = Len(st_Y)
    /\ LET k == Len(st_X) \div 2
       IN  st_indices' \in [1..k -> 1..k]
    /\ st_pc' = "resample"
    /\ UNCHANGED <<st_battles, st_X, st_Y, st_models, st_rX, st_rY, st_lr, st_elos,
                   st_coefs, notSty>>

\* lines 574-585: the resampled matrices, and the assertion on their shapes
StyleResample ==
    /\ st_pc = "resample"
    /\ LET rX == Resample(st_X, st_battles, st_indices)
           rY == Resample(st_Y, st_battles, st_indices)
       IN  /\ st_rX' = rX
           /\ st_rY' = rY
           /\ st_pc' = IF Len(rX) = Len(st_X) /\ Len(rY) = Len(st_Y)
                       THEN "fit" ELSE "assertion"
    /\ UNCHANGED <<st_battles, st_X, st_Y, st_models, st_indices, st_lr, st_elos,
                   st_coefs, notSty>>

\* lines 587-591 with fit_mle_elo, lines 477-492: the regression gives one
\* coefficient per column of _X, and models is models[~states]
StyleFit ==
    /\ st_pc = "fit"
    /\ Cardinality(Range(st_rY)) >= 2
    /\ \E strength \in [1..Len(st_models) -> StyleCoefs] :
       \E style \in StyleBlocks :
          LET coef_ == strength \o style
              models == SubSeries(st_models, StylePresent(st_rX, st_models))
              p == Len(models)
              elo_scores == Affine(<<coef_>>)
              anchored == IF ANCHOR \in SeriesIndex(models)
                          THEN AnchorShift(elo_scores, SeriesCol(models, ANCHOR))
                          ELSE elo_scores
          IN  /\ st_lr' = coef_
              /\ st_elos' = Append(st_elos, FitSeries(SubSeq(anchored[1], 1, p), models))
              /\ st_coefs' = Append(st_coefs, SubSeq(coef_, p + 1, Len(coef_)))
    /\ st_pc' = IF Len(st_elos) + 1 < StyleNumRound THEN "draw" ELSE "return"
    /\ UNCHANGED <<st_battles, st_X, st_Y, st_models, st_indices, st_rX, st_rY, notSty>>

\* lr.fit (line 483) raises when the labels of _Y are all of one class
StyleFitRaise ==
    /\ st_pc = "fit"
    /\ Cardinality(Range(st_rY)) < 2
    /\ st_pc' = "raised"
    /\ UNCHANGED <<st_battles, st_X, st_Y, st_models, st_indices, st_rX, st_rY, st_lr,
                   st_elos, st_coefs, notSty>>

\* lines 593-594: elos and coefs are returned; the order of the columns of
\* the frame is not modelled
StyleReturn ==
    /\ st_pc = "return"
    /\ st_pc' = "done"
    /\ UNCHANGED <<st_battles, st_X, st_Y, st_models, st_indices, st_rX, st_rY, st_lr,
                   st_elos, st_coefs, notSty>>

StyleNext ==
    StyleConstruct \/ StyleDraw \/ StyleResample \/ StyleFit \/ StyleFitRaise \/ StyleReturn

----------------------------------------------------------------------------
(* get_bootstrap_result_elo_mle_with_tie, lines 169-191 *)

\* The largest number of battles bound to the module-level name battles.
MaxBootBattles == 3

\* num_round: the number of trials of a call.
BootNumRound == 2

\* The battles of the frames of a bootstrap call.
BootBattles ==
    {[model_a |-> "m1", model_b |-> "m2", winner |-> "model_a"],
     [model_a |-> "m1", model_b |-> "m2", winner |-> "tie"],
     [model_a |-> "m2", model_b |-> "m3", winner |-> "model_b"]}

\* The module-level name battles is bound by the script part of the module
\* only (lines 782-788); in an importing program it is unbound.
Unbound == [bound |-> FALSE, frame |-> <<>>]

\* The rows of a frame a filter keeps.
Filtered(frame, keep) ==
    LET RECURSIVE pick(_)
        pick(i) == IF i > Len(frame) THEN <<>>
                   ELSE (IF i \in keep THEN <<frame[i]>> ELSE <<>>) \o pick(i + 1)
    IN  pick(1)

\* preprocess_battles_to_arrays of a frame (lines 71-96).
Encode(df) ==
    LET models == PdUnique(Ravel(df))
    IN  NpUnique([i \in DOMAIN df |-> ScheduleRow(models, df[i])], models)

\* The rows a multinomial draw of n over u cells can give: every cell has a
\* positive probability.
Multinomial(n, u) == {c \in [1..u -> 0..n] : SumSeq(c) = n}

\* fit_bt (lines 121-134) as a function of its arguments; the optimisation
\* is not modelled.
FitBt(matchups, outcomes, weights, n_models) ==
    [fit_bt |-> [matchups |-> matchups, outcomes |-> outcomes, weights |-> weights,
                 n_models |-> n_models]]

NoPvals == [n |-> 0, pvals |-> <<>>]

BootIdle ==
    /\ bt_pc = "idle"
    /\ bt_df = <<>>
    /\ bt_global = Unbound
    /\ bt_enc = NoOut
    /\ bt_pvals = NoPvals
    /\ bt_idxs = <<>>
    /\ bt_results = <<>>
    /\ bt_out = <<>>

\* A call from report_elo_analysis_results (lines 667-669): df is what the
\* filters left of the frame the report was given.  When the module runs as
\* a script that frame is the one bound to battles.
BootInit ==
    /\ bt_pc = "encode"
    /\ \E frame \in SeqsUpTo(BootBattles, MaxBootBattles) \ {<<>>} :
       \E keep \in SUBSET DOMAIN frame :
          /\ bt_df = Filtered(frame, keep)
          /\ bt_global \in {Unbound, [bound |-> TRUE, frame |-> frame]}
    /\ bt_enc = NoOut
    /\ bt_pvals = NoPvals
    /\ bt_idxs = <<>>
    /\ bt_results = <<>>
    /\ bt_out = <<>>

\* line 172, battles bound
BootEncode ==
    /\ bt_pc = "encode"
    /\ bt_global.bound
    /\ bt_enc' = Encode(bt_global.frame)
    /\ bt_pc' = "draw"
    /\ UNCHANGED <<bt_df, bt_global, bt_pvals, bt_idxs, bt_results, bt_out, notBoot>>

\* line 172, battles unbound: NameError
BootNameError ==
    /\ bt_pc = "encode"
    /\ ~bt_global.bound
    /\ bt_pc' = "raised"
    /\ UNCHANGED <<bt_df, bt_global, bt_enc, bt_pvals, bt_idxs, bt_results, bt_out, notBoot>>

\* lines 174-176
BootDraw ==
    /\ bt_pc = "draw"
    /\ LET n == Len(bt_global.frame)
           weights == bt_enc.weights
       IN  /\ bt_pvals' = [n |-> n,
                           pvals |-> [i \in DOMAIN weights |->
                                         [num |-> weights[i], den |-> SumSeq(weights)]]]
           /\ bt_idxs' \in [1..BootNumRound -> Multinomial(n, Len(weights))]
    /\ bt_pc' = "fit"
    /\ UNCHANGED <<bt_df, bt_global, bt_enc, bt_results, bt_out, notBoot>>

\* lines 178-188: boot_weights, and one fit per row of it, in its order
BootFit ==
    /\ bt_pc = "fit"
    /\ LET boot_weights ==
               [i \in DOMAIN bt_idxs |->
                   [j \in DOMAIN bt_idxs[i] |->
                       [num |-> bt_idxs[i][j], den |-> Len(bt_global.frame)]]]
       IN  bt_results' = [i \in DOMAIN boot_weights |->
                             FitBt(bt_enc.matchups, bt_enc.outcomes, boot_weights[i],
                                   Len(bt_enc.models))]
    /\ bt_pc' = "return"
    /\ UNCHANGED <<bt_df, bt_global, bt_enc, bt_pvals, bt_idxs, bt_out, notBoot>>

\* lines 189-191: the frame of the results under the columns models; the
\* rescaling is that of scale_and_offset, and the order of the columns is
\* not modelled
BootReturn ==
    /\ bt_pc = "return"
    /\ bt_out' = [i \in DOMAIN bt_results |->
                     [ratings |-> bt_results[i], columns |-> bt_enc.models]]
    /\ bt_pc' = "done"
    /\ UNCHANGED <<bt_df, bt_global, bt_enc, bt_pvals, bt_idxs, bt_results, notBoot>>

BootNext == BootEncode \/ BootNameError \/ BootDraw \/ BootFit \/ BootReturn

----------------------------------------------------------------------------
(* report_elo_analysis_results, lines 607-676, with limit_user_votes,      *)
(* lines 357-375, and get_bootstrap_result, lines 62-68                    *)

\* The largest number of battles in battles_json.
MaxReportBattles == 3

\* num_bootstrap: the number of trials of get_bootstrap_result.
RepNumRound == 1

\* The length of a day, in the unit of tstamp.
DAY == 2

\* The battles of battles_json: three of judge u1 and two of judge u2, the
\* first on one day and the others on the next.
RepBattles ==
    {[tstamp |-> 1, judge |-> "u1", language |-> "English", anony |-> TRUE,
      model_a |-> "m1", model_b |-> "m2", winner |-> "model_a"],
     [tstamp |-> 2, judge |-> "u1", language |-> "English", anony |-> TRUE,
      model_a |-> "m1", model_b |-> "m2", winner |-> "tie"],
     [tstamp |-> 3, judge |-> "u1", language |-> "English", anony |-> TRUE,
      model_a |-> "m1", model_b |-> "m2", winner |-> "model_b"],
     [tstamp |-> 1, judge |-> "u2", language |-> "unknown", anony |-> TRUE,
      model_a |-> "m2", model_b |-> "m1", winner |-> "model_b"],
     [tstamp |-> 2, judge |-> "u2", language |-> "English", anony |-> FALSE,
      model_a |-> "m2", model_b |-> "m1", winner |-> "model_a"]}

\* daily_vote_per_user: None, or a number.
NoLimit == [given |-> FALSE, n |-> 0]

\* The arguments of a call; filter_func, exclude_models and
\* exclude_unknown_lang are at their defaults.
RepArgs ==
    [battles_json : SeqsUpTo(RepBattles, MaxReportBattles) \ {<<>>},
     rating_system : {"bt", "elo"},
     langs : {<<>>, <<"English">>},
     exclude_tie : BOOLEAN,
     daily_vote_per_user : {NoLimit, [given |-> TRUE, n |-> 1]},
     run_outlier_detect : BOOLEAN]

\* compute_elo as a function: the table after the rows of battles, in the
\* order of the frame (lines 39-59).
RECURSIVE EloFold(_, _, _)
EloFold(rating, battles, rd) ==
    IF rd > Len(battles) THEN rating
    ELSE EloFold(EloUpdated(rating, rd, battles[rd]), battles, rd + 1)

ComputeElo(battles) == EloFold(EmptyDict, battles, 1)

\* The frames sort_values(by=["tstamp"]) can give (line 627): the sort is
\* not a stable one, so rows of one timestamp can come in any order.
SortValues(frame) == {s \in Reorderings(frame) : SortedByTstamp(s)}

\* The masks of lines 629-646 for the arguments modelled.
RepKeeps(args, b) ==
    /\ Len(args.langs) > 0 => b.language \in Range(args.langs)
    /\ b.anony
    /\ args.exclude_tie => ~IsTie(b)

\* The date of a timestamp (lines 362-364).
DateOf(tstamp) == tstamp \div DAY

\* df_today.groupby("judge").head(n): the first n rows of every judge, in
\* the order of df_today (line 370).
HeadPerJudge(df, n) ==
    Filtered(df, {i \in DOMAIN df :
                     Cardinality({j \in 1..i : df[j].judge = df[i].judge}) <= n})

\* limit_user_votes (lines 366-375): the heads of the dates, in the order in
\* which the dates first appear.
LimitUserVotes(battles, n) ==
    LET dates == PdUnique([i \in DOMAIN battles |-> DateOf(battles[i].tstamp)])
        RECURSIVE concat(_)
        concat(d) ==
            IF d > Len(dates) THEN <<>>
            ELSE HeadPerJudge(SelectSeq(battles, LAMBDA b : DateOf(b.tstamp) = dates[d]), n)
                 \o concat(d + 1)
    IN  concat(1)

\* The lists bad_user_list outlier_detect can end with when called with the
\* default user_list: only judges with MIN_VOTES votes are checked.
RepBadLists(battles) ==
    {[i \in DOMAIN s |-> [user_id |-> s[i], votes |-> MIN_VOTES]] :
        s \in UNION {Orderings(S) : S \in SUBSET Range(DefaultUserList(battles))}}

RepIdle ==
    /\ rp_pc = "idle"
    /\ rp_args = [rating_system |-> "none"]
    /\ rp_battles = <<>>
    /\ rp_columns = FALSE
    /\ rp_calls = <<>>
    /\ rp_online = EmptyDict
    /\ rp_rows = <<>>

RepInit ==
    /\ rp_pc = "sort"
    /\ rp_args \in RepArgs
    /\ rp_battles = <<>>
    /\ rp_columns = TRUE
    /\ rp_calls = <<>>
    /\ rp_online = EmptyDict
    /\ rp_rows = <<>>

\* lines 621-627
RepSort ==
    /\ rp_pc = "sort"
    /\ rp_battles' \in SortValues(rp_args.battles_json)
    /\ rp_pc' = "filter"
    /\ UNCHANGED <<rp_args, rp_columns, rp_calls, rp_online, rp_rows, notRep>>

\* lines 629-646
RepFilter ==
    /\ rp_pc = "filter"
    /\ rp_battles' = SelectSeq(rp_battles, LAMBDA b : RepKeeps(rp_args, b))
    /\ rp_pc' = "limit"
    /\ UNCHANGED <<rp_args, rp_columns, rp_calls, rp_online, rp_rows, notRep>>

\* lines 648-649; limit_user_votes starts from pd.DataFrame(), so of an
\* empty frame it returns a frame without columns
RepLimit ==
    /\ rp_pc = "limit"
    /\ IF rp_args.daily_vote_per_user.given
       THEN /\ rp_battles' = LimitUserVotes(rp_battles, rp_args.daily_vote_per_user.n)
            /\ rp_columns' = (rp_battles # <<>>)
       ELSE UNCHANGED <<rp_battles, rp_columns>>
    /\ rp_pc' = "outlier"
    /\ UNCHANGED <<rp_args, rp_calls, rp_online, rp_rows, notRep>>

\* lines 651-653: battles without the rows of the flagged judges
RepOutlier ==
    /\ rp_pc = "outlier"
    /\ rp_columns
    /\ IF rp_args.run_outlier_detect
       THEN \E bad \in RepBadLists(rp_battles) : rp_battles' = OutKeep(rp_battles, bad)
       ELSE UNCHANGED rp_battles
    /\ rp_pc' = "online"
    /\ UNCHANGED <<rp_args, rp_columns, rp_calls, rp_online, rp_rows, notRep>>

\* lines 651-657: a frame without columns raises KeyError where a column is
\* read: in outlier_detect, or else in compute_elo
RepKeyError ==
    /\ rp_pc = "outlier"
    /\ ~rp_columns
    /\ rp_pc' = "raised"
    /\ UNCHANGED <<rp_args, rp_battles, rp_columns, rp_calls, rp_online, rp_rows, notRep>>

\* line 657
RepOnline ==
    /\ rp_pc = "online"
    /\ rp_calls' = Append(rp_calls, rp_battles)
    /\ rp_online' = ComputeElo(rp_battles)
    /\ rp_pc' = IF rp_args.rating_system = "elo" THEN "bootstrap" ELSE "bt"
    /\ UNCHANGED <<rp_args, rp_battles, rp_columns, rp_rows, notRep>>

\* lines 671-674 with lines 64-66: a trial of get_bootstrap_result samples
\* len(battles) rows with replacement, in the order drawn, and calls compute_elo
RepTrial ==
    /\ rp_pc = "bootstrap"
    /\ \E drawn \in [DOMAIN rp_battles -> DOMAIN rp_battles] :
          LET tmp_battles == Gather(rp_battles, drawn)
          IN  /\ rp_calls' = Append(rp_calls, tmp_battles)
              /\ rp_rows' = Append(rp_rows, ComputeElo(tmp_battles))
    /\ rp_pc' = IF Len(rp_rows) + 1 < RepNumRound THEN "bootstrap" ELSE "done"
    /\ UNCHANGED <<rp_args, rp_battles, rp_columns, rp_online, notRep>>

\* lines 659-670: under "bt" the bootstrap and the final fit do not call compute_elo
RepBt ==
    /\ rp_pc = "bt"
    /\ rp_pc' = "done"
    /\ UNCHANGED <<rp_args, rp_battles, rp_columns, rp_calls, rp_online, rp_rows, notRep>>

RepNext ==
    RepSort \/ RepFilter \/ RepLimit \/ RepOutlier \/ RepKeyError \/ RepOnline \/ RepTrial
        \/ RepBt

----------------------------------------------------------------------------
(* The specifications: one component runs, the others are idle *)

InitSc == (ScaleInit \/ FitInit) /\ EncIdle /\ RankIdle /\ EloIdle /\ OutIdle /\ StyleIdle /\ BootIdle /\ RepIdle

SpecScale == InitSc /\ [][ScNext]_vars

InitOut == OutInit /\ EncIdle /\ RankIdle /\ EloIdle /\ ScIdle /\ StyleIdle /\ BootIdle /\ RepIdle

SpecOut == InitOut /\ [][OutNext]_vars

InitEnc == EncInit /\ RankIdle /\ EloIdle /\ OutIdle /\ ScIdle /\ StyleIdle /\ BootIdle /\ RepIdle

InitElo == EloInit /\ EncIdle /\ RankIdle /\ OutIdle /\ ScIdle /\ StyleIdle /\ BootIdle /\ RepIdle

SpecElo == InitElo /\ [][EloNext]_vars

SpecEnc == InitEnc /\ [][EncNext]_vars

InitRank == RankInit /\ EncIdle /\ EloIdle /\ OutIdle /\ ScIdle /\ StyleIdle /\ BootIdle /\ RepIdle

SpecRank == InitRank /\ [][RankNext]_vars

InitStyle == StyleInit /\ EncIdle /\ RankIdle /\ EloIdle /\ OutIdle /\ ScIdle /\ BootIdle /\ RepIdle

SpecStyle == InitStyle /\ [][StyleNext]_vars

InitBoot == BootInit /\ EncIdle /\ RankIdle /\ EloIdle /\ OutIdle /\ ScIdle /\ StyleIdle /\ RepIdle

SpecBoot == InitBoot /\ [][BootNext]_vars

InitReport ==
    RepInit /\ EncIdle /\ RankIdle /\ EloIdle /\ OutIdle /\ ScIdle /\ StyleIdle /\ BootIdle

SpecReport == InitReport /\ [][RepNext]_vars

----------------------------------------------------------------------------
(* Claims about preprocess_battles_to_arrays *)

\* The triple the k-th returned matchup and outcome form.
EncTriple(k) ==
    <<enc_out.matchups[k][1], enc_out.matchups[k][2], enc_out.outcomes[k].num>>

\* The triple a battle encodes to under the returned registry.
BattleTriple(b) == ScheduleRow(enc_out.models, b)

\* C1: the returned triples are pairwise distinct, the weight of each is the
\* number of input battles that encode to it, and the weights sum to the
\* number of input battles.
C1_WeightsCountBattles ==
    enc_pc = "done" =>
        /\ DOMAIN enc_out.matchups = DOMAIN enc_out.weights
        /\ DOMAIN enc_out.outcomes = DOMAIN enc_out.weights
        /\ \A j, k \in DOMAIN enc_out.weights : j # k => EncTriple(j) # EncTriple(k)
        /\ \A k \in DOMAIN enc_out.weights :
              enc_out.weights[k] =
                  Cardinality({i \in DOMAIN enc_df : BattleTriple(enc_df[i]) = EncTriple(k)})
        /\ \A i \in DOMAIN enc_df :
              \E k \in DOMAIN enc_out.weights : BattleTriple(enc_df[i]) = EncTriple(k)
        /\ SumSeq(enc_out.weights) = Len(enc_df)

\* Three battles were encoded to two triples, one of them met twice.
C1_Witness ==
    /\ enc_pc = "done"
    /\ Len(enc_df) = 3
    /\ Len(enc_out.weights) = 2
    /\ \E k \in DOMAIN enc_out.weights : enc_out.weights[k] = 2

\* C2: a battle whose outcome is none of the four recognized tags aborts the
\* encoding: the encoder never returns for an input that holds such a battle.
C2_UnrecognizedOutcomeAborts ==
    enc_pc = "done" => \A i \in DOMAIN enc_df : enc_df[i].winner \in RecognizedWinners

----------------------------------------------------------------------------
(* Claims about the ranking *)

\* The competitors other than m whose lower bound strictly exceeds m's upper bound.
StrictlyAbove(m) == {o \in Range(rank_order) \ {m} : rank_q025[o] > rank_q975[m]}

\* C4: every competitor of the final rating is ranked 1 plus the number of
\* other competitors whose 2.5% quantile is strictly above its 97.5% quantile.
C4_RankCountsStrictlyAbove ==
    rank_pc = "done" =>
        /\ DOMAIN ranking = Range(rank_order)
        /\ \A m \in Range(rank_order) : ranking[m] = 1 + Cardinality(StrictlyAbove(m))

\* A finished ranking in which one competitor's lower bound equals another's
\* upper bound and a third competitor is strictly above.
C4_Witness ==
    /\ rank_pc = "done"
    /\ Len(rank_order) = 3
    /\ \E m, o \in Range(rank_order) : m # o /\ rank_q025[o] = rank_q975[m]
    /\ \E m \in Range(rank_order) : ranking[m] = 2

\* C5: a competitor whose 2.5% quantile strictly exceeds another's 97.5%
\* quantile is ranked strictly better than the other.
C5_RankConsistentWithQuantiles ==
    rank_pc = "done" =>
        \A x, y \in Range(rank_order) :
            rank_q025[x] > rank_q975[y] => ranking[x] < ranking[y]

\* A finished ranking with three competitors on three disjoint intervals.
C5_Witness ==
    /\ rank_pc = "done"
    /\ \E x, y, z \in Range(rank_order) :
          /\ rank_q025[x] > rank_q975[y]
          /\ rank_q025[y] > rank_q975[z]
          /\ ranking[x] = 1 /\ ranking[y] = 2 /\ ranking[z] = 3

----------------------------------------------------------------------------
(* Claims about compute_elo *)

\* The call that is running meets a battle with an unrecognized outcome.
EloAtUnrecognized ==
    /\ elo_pc = "loop"
    /\ elo_rd <= Len(elo_calls[elo_call])
    /\ EloRow.winner \notin RecognizedWinners

\* C3: the loop never passes a battle with an unrecognized outcome; at the
\* first one the call raises, no competitor's rating differs from what it was
\* before that battle, and the caller gets no rating table; a call that
\* returns a table met recognized outcomes only.
C3_UnrecognizedOutcomeRaises ==
    /\ [](elo_pc = "loop" =>
            \A i \in 1..(elo_rd - 1) : elo_calls[elo_call][i].winner \in RecognizedWinners)
    /\ [][EloAtUnrecognized =>
            /\ elo_pc' = "raised"
            /\ elo_ret'[elo_call] = [kind |-> "raised", rating |-> EmptyDict]
            /\ \A m \in EloModels : EloGet(elo_rating', m) = EloGet(elo_rating, m)]_vars
    /\ [](\A c \in DOMAIN elo_ret :
            elo_ret[c].kind = "dict" =>
                \A i \in DOMAIN elo_calls[c] : elo_calls[c][i].winner \in RecognizedWinners)

\* A call raised at its second battle, after the first battle moved a rating.
C3_Witness ==
    /\ elo_pc = "raised"
    /\ elo_rd = 2
    /\ elo_ret[elo_call].kind = "raised"
    /\ \E m \in DOMAIN elo_rating : elo_rating[m] # INIT_RATING * EloUnit

\* Both calls have returned a rating table.
EloBothReturned ==
    /\ elo_call = 2
    /\ elo_pc = "returned"
    /\ elo_ret[1].kind = "dict"
    /\ elo_ret[2].kind = "dict"

\* C9 as stated: two sorted sequences of the same battles, which differ only
\* in the order of battles of one timestamp, give every competitor the same rating.
C9_SameTimestampOrderIrrelevant ==
    EloBothReturned => elo_ret[1].rating = elo_ret[2].rating

\* No two battles of s with the same timestamp have a competitor in common.
NoSharedCompetitor(s) ==
    \A i, j \in DOMAIN s :
        (i < j /\ s[i].tstamp = s[j].tstamp) =>
            {s[i].model_a, s[i].model_b} \cap {s[j].model_a, s[j].model_b} = {}

\* C9 amended: the ratings are the same when no two battles of one timestamp
\* have a competitor in common.
C9_DisjointOrderIrrelevant ==
    (EloBothReturned /\ NoSharedCompetitor(elo_calls[1])) =>
        elo_ret[1].rating = elo_ret[2].rating

\* Two battles of one timestamp with no common competitor were rated in both
\* orders, and the ratings moved.
C9_Witness ==
    /\ EloBothReturned
    /\ NoSharedCompetitor(elo_calls[1])
    /\ elo_calls[1] # elo_calls[2]
    /\ \E m \in DOMAIN elo_ret[2].rating : elo_ret[2].rating[m] # INIT_RATING * EloUnit

----------------------------------------------------------------------------
(* Claims about outlier_detect *)

\* The judge is flagged nowhere and, once the battles are returned, all of
\* the judge's battles are among them.
NeverFlagged(j) ==
    /\ j \notin BadIds(out_bad)
    /\ out_pc = "done" => RowsOf(out_ret, j) = RowsOf(out_battles, j)

\* C6 as stated: a judge with fewer than 5 votes is never flagged and keeps
\* every battle, whatever the arguments are.
C6_FewVotesNeverFlagged ==
    \A j \in Judges : VoteCount(out_battles, j) < MIN_VOTES => NeverFlagged(j)

\* C6 amended: a judge with fewer than 5 votes is never flagged and keeps
\* every battle when outlier_detect is called without a user_list.
C6_FewVotesNeverFlaggedByDefault ==
    ~out_users_arg.given =>
        \A j \in Judges : VoteCount(out_battles, j) < MIN_VOTES => NeverFlagged(j)

\* Called without a user_list, outlier_detect flagged one judge and returned
\* the one battle of the other judge.
C6_Witness ==
    /\ out_pc = "done"
    /\ ~out_users_arg.given
    /\ BadIds(out_bad) = {"u1"}
    /\ VoteCount(out_battles, "u2") = 1
    /\ Len(out_ret) = 1

RECURSIVE Pow(_, _)
Pow(b, n) == IF n = 0 THEN 1 ELSE b * Pow(b, n - 1)

\* Every vote of the judge is a non-tie vote for the same side.
OneSided(j) ==
    LET rows == RowsOf(out_battles, j)
    IN  /\ rows # <<>>
        /\ OutVoteOf(rows[1]) # 1
        /\ \A i \in DOMAIN rows : OutVoteOf(rows[i]) = OutVoteOf(rows[1])

\* The number of non-tie votes the pair statistics hold for the judge's side.
SideCount(j) ==
    IF OutVoteOf(RowsOf(out_battles, j)[1]) = 2 THEN out_stats.win ELSE out_stats.loss

StatsTotal == out_stats.win + out_stats.loss

\* (1 / (2p)) ^ n > 1 / alpha for the share p = SideCount(j) / StatsTotal.
Crosses(j, n) == Pow(StatsTotal, n) > INV_ALPHA * Pow(2 * SideCount(j), n)

\* The first vote count at which the judge's product crosses 1 / alpha lies
\* within max_vote and the judge's votes.
CrossesInTime(j) ==
    \E n \in 1..VoteCount(out_battles, j) : n <= out_max_vote /\ Crosses(j, n)

FirstCrossing(j) ==
    CHOOSE n \in 1..VoteCount(out_battles, j) :
        Crosses(j, n) /\ \A k \in 1..(n - 1) : ~Crosses(j, k)

\* The judge's votes are one-sided for a side with a share below 1/2 that
\* crosses in time.
MinorityVoter(j) ==
    /\ OneSided(j)
    /\ 0 < SideCount(j)
    /\ 2 * SideCount(j) < StatsTotal
    /\ CrossesInTime(j)

\* The test of the judge stops at the first crossing, having inspected no
\* later vote, and the judge is recorded as flagged at that vote.
FlaggedAtFirstCrossing(j) ==
    /\ (out_pc \in {"votes", "enduser"} /\ out_user_list[out_u] = j) =>
          /\ out_row <= FirstCrossing(j)
          /\ Len(out_p_upper) = out_row
          /\ out_flag <=> out_row = FirstCrossing(j)
          /\ out_pc = "enduser" => out_flag
    /\ out_pc = "done" =>
          \E k \in DOMAIN out_bad :
              out_bad[k] = [user_id |-> j, votes |-> FirstCrossing(j)]

\* C7 as stated: every judge with at least 5 one-sided minority votes is
\* flagged at the first crossing.
C7_MinorityVoterFlagged ==
    \A j \in Judges :
        (VoteCount(out_battles, j) >= MIN_VOTES /\ MinorityVoter(j)) =>
            FlaggedAtFirstCrossing(j)

\* The judge is one of the users outlier_detect checks.
Checked(j) ==
    IF out_users_arg.given THEN j \in Range(out_users_arg.list)
    ELSE VoteCount(out_battles, j) >= MIN_VOTES

\* C7 amended: every checked judge with one-sided minority votes is flagged
\* at the first crossing.
C7_CheckedMinorityVoterFlagged ==
    \A j \in Judges : (Checked(j) /\ MinorityVoter(j)) => FlaggedAtFirstCrossing(j)

\* A judge with six votes for a side that holds 1/5 of the pair's votes was
\* flagged at the fourth vote.
C7_Witness ==
    /\ out_pc = "done"
    /\ ~out_users_arg.given
    /\ \E j \in Judges :
          /\ VoteCount(out_battles, j) = 6
          /\ MinorityVoter(j)
          /\ 5 * SideCount(j) = StatsTotal
          /\ out_bad = <<[user_id |-> j, votes |-> 4]>>

\* The positions of the battles whose judge is not flagged.
UnflaggedRows == {i \in DOMAIN out_battles : out_battles[i].judge \notin BadIds(out_bad)}

\* The k-th of them.
KthUnflagged(k) ==
    CHOOSE i \in UnflaggedRows : Cardinality({x \in UnflaggedRows : x <= i}) = k

\* C8: the returned battles are the input battles whose judge is not
\* flagged, each unchanged and in the order of the input.
C8_ReturnsUnflaggedBattles ==
    out_pc = "done" =>
        /\ Len(out_ret) = Cardinality(UnflaggedRows)
        /\ \A k \in DOMAIN out_ret : out_ret[k] = out_battles[KthUnflagged(k)]

\* A judge was flagged at the fourth of five votes under max_vote = 4, and
\* the battle of the other judge, which lies between them, is what is returned.
C8_Witness ==
    /\ out_pc = "done"
    /\ out_max_vote = 4
    /\ out_bad = <<[user_id |-> "u2", votes |-> 4]>>
    /\ VoteCount(out_battles, "u2") = 5
    /\ out_battles[3].judge = "u1"
    /\ out_ret = <<out_battles[3]>>

----------------------------------------------------------------------------
(* Claims about the rating-scale transform *)

\* A row of outputs differs from scale * raw + init_rating by one shift.
UniformShift(out, raw) ==
    \A i, j \in DOMAIN out : out[i] - out[j] = SCALE * (raw[i] - raw[j])

\* What C10 says of a finished call of scale_and_offset.
ScaleAnchored ==
    (sc_pc = "done" /\ sc_fn = "scale_and_offset") =>
        IF ANCHOR \in Range(sc_models)
        THEN \A r \in DOMAIN sc_out :
                /\ sc_out[r][ListIndex(sc_models, ANCHOR)] = BASELINE_RATING
                /\ UniformShift(sc_out[r], sc_raw[r])
        ELSE sc_out = [r \in DOMAIN sc_raw |->
                          [i \in DOMAIN sc_raw[r] |-> sc_raw[r][i] * SCALE + INIT_RATING]]

\* The coefficient the regression fitted for the strength column of a competitor.
FittedCoef(name) == sc_raw[1][SeriesCol(sc_models, name)]

\* What C10 says of a finished call of fit_mle_elo: the rating returned under
\* a competitor's name comes from that competitor's coefficient.
FitAnchored ==
    (sc_pc = "done" /\ sc_fn = "fit_mle_elo") =>
        IF ANCHOR \in SeriesIndex(sc_models)
        THEN /\ sc_out.elo[ANCHOR] = BASELINE_RATING
             /\ \A m, n \in SeriesIndex(sc_models) :
                   sc_out.elo[m] - sc_out.elo[n] = SCALE * (FittedCoef(m) - FittedCoef(n))
        ELSE \A m \in SeriesIndex(sc_models) :
                sc_out.elo[m] = SCALE * FittedCoef(m) + INIT_RATING

\* C10: with the anchor in the registry the anchor's output is the target
\* and every competitor of a vector gets the same shift, one shift per trial
\* of an ensemble; without the anchor the output is raw * scale + init_rating;
\* in scale_and_offset and in fit_mle_elo.
C10_AnchorOnTarget == ScaleAnchored /\ FitAnchored

----------------------------------------------------------------------------
(* Claims about the style-control matrices and their bootstrap *)

\* A trial of the bootstrap has been fitted; st_indices, st_rX and st_lr are its.
StyleTrialDone == st_pc \in {"return", "done"} /\ st_elos # <<>>

\* The competitors of the battles a trial drew.
Occurring ==
    UNION {{st_battles[st_indices[j]].model_a, st_battles[st_indices[j]].model_b} :
              j \in DOMAIN st_indices}

\* The coefficient the trial's fit gave the strength column of a competitor.
TrialCoef(name) == st_lr[SeriesCol(st_models, name)]

\* The rating fit_mle_elo is to return for a competitor of the trial.
TrialRating(name) ==
    IF ANCHOR \in Occurring
    THEN SCALE * (TrialCoef(name) - TrialCoef(ANCHOR)) + BASELINE_RATING
    ELSE SCALE * TrialCoef(name) + INIT_RATING

\* C11: in every trial of the style-control bootstrap the design matrix has
\* the strength columns of the competitors that occur in the resample and
\* the style columns, the returned ratings are those of the occurring
\* competitors, each from the coefficient of its own strength column, and
\* the style-coefficient vector has one entry per style covariate.
C11_TrialOverOccurringCompetitors ==
    StyleTrialDone =>
        LET elo == st_elos[Len(st_elos)]
            coef == st_coefs[Len(st_coefs)]
        IN  /\ \A r \in DOMAIN st_rX : Len(st_rX[r]) = Cardinality(Occurring) + STYLE_COLUMNS
            /\ DOMAIN elo = Occurring
            /\ \A m \in Occurring : elo[m] = TrialRating(m)
            /\ Len(coef) = STYLE_COLUMNS

\* The matrices of construct_style_matrices have been built.
StyleBuilt == st_pc \notin {"idle", "construct"}

\* The resample of a trial has been built.
StyleResampled == st_pc \in {"fit", "raised", "return", "done"}

\* The labels the claim gives the two rows of a battle.
PairOfLabels(b) ==
    IF b.winner = "model_a" THEN <<1, 1>>
    ELSE IF b.winner = "model_b" THEN <<0, 0>>
    ELSE <<1, 0>>

\* The number of rows with content x and label y in the resample.
ResampledRows(x, y) ==
    Cardinality({r \in DOMAIN st_rX : st_rX[r] = x /\ st_rY[r] = y})

\* The number of such rows the claim has draw j contribute: a tie one row of
\* each label, another battle two rows with the label of its forward row.
DrawnRows(j, x, y) ==
    LET i == st_indices[j]
    IN  IF st_X[i] # x THEN 0
        ELSE IF IsTie(st_battles[i]) THEN 1
        ELSE IF st_Y[i] = y THEN 2
        ELSE 0

\* C12: X and Y have 2n rows, rows i and i + n are those of battle i with
\* labels (1,1) for an A-win, (0,0) for a B-win and (1,0) for a tie; every
\* resample has 2n rows, one row of each label per drawn tie and two rows with
\* the forward label per other draw, and the shape assertion never fails.
C12_RowDoubling ==
    LET n == Len(st_battles)
    IN  /\ StyleBuilt =>
            /\ Len(st_X) = 2 * n /\ Len(st_Y) = 2 * n
            /\ \A i \in 1..n :
                  /\ st_X[i] = st_X[i + n]
                  /\ st_X[i][SeriesCol(st_models, st_battles[i].model_a)] = 1
                  /\ st_X[i][SeriesCol(st_models, st_battles[i].model_b)] = 0 - 1
                  /\ <<st_Y[i], st_Y[i + n]>> = PairOfLabels(st_battles[i])
        /\ st_pc # "assertion"
        /\ StyleResampled =>
            /\ Len(st_rX) = 2 * n /\ Len(st_rY) = 2 * n
            /\ \A x \in Range(st_X) \cup Range(st_rX) : \A y \in {0, 1} :
                  ResampledRows(x, y) =
                      SumSeq([j \in DOMAIN st_indices |-> DrawnRows(j, x, y)])

\* A resample that drew a B-win and then a tie of the second kind.
C12_Witness ==
    /\ StyleResampled
    /\ Len(st_battles) = 2
    /\ st_battles[1].winner = "tie (bothbad)"
    /\ st_battles[2].winner = "model_b"
    /\ st_indices = <<2, 1>>
    /\ st_rY = <<0, 0, 1, 0>>

----------------------------------------------------------------------------
(* Claims about the plain bootstrap *)

\* C13: the call resamples the encoded triples of its argument df: it
\* completes, every row of draw counts is over the triples of df, drawn with
\* probabilities in proportion to the weights of df, and sums to the number
\* of battles of df, and row i of the ensemble is the fit of row i of the draw.
C13_ResamplesItsArgument ==
    /\ bt_pc # "raised"
    /\ bt_pc \in {"fit", "return", "done"} =>
          LET enc == Encode(bt_df)
          IN  /\ bt_enc = enc
              /\ bt_pvals.n = Len(bt_df)
              /\ bt_pvals.pvals = [i \in DOMAIN enc.weights |->
                                      [num |-> enc.weights[i], den |-> Len(bt_df)]]
              /\ \A i \in DOMAIN bt_idxs :
                    /\ DOMAIN bt_idxs[i] = DOMAIN enc.weights
                    /\ SumSeq(bt_idxs[i]) = Len(bt_df)
    /\ bt_pc = "done" =>
          /\ Len(bt_out) = BootNumRound
          /\ \A i \in DOMAIN bt_out :
                bt_out[i].ratings.fit_bt.weights =
                    [j \in DOMAIN bt_idxs[i] |->
                        [num |-> bt_idxs[i][j], den |-> Len(bt_df)]]

----------------------------------------------------------------------------
(* Claims about the reporting run *)

\* The online snapshot was computed from battles in timestamp order.
OnlineInOrder == rp_calls # <<>> => SortedByTstamp(rp_calls[1])

\* C14: every execution of compute_elo in a reporting run, the online
\* snapshot and the trials of the bootstrap under rating system "elo", is
\* given its battles in non-decreasing timestamp order.
C14_EloCallsInTstampOrder == \A c \in DOMAIN rp_calls : SortedByTstamp(rp_calls[c])

----------------------------------------------------------------------------
(* Claims about the tail probabilities of the outlier test *)

\* A tail probability is a defined number greater than 0.
DefinedPositive(p) == p.den > 0 /\ p.num > 0

\* C15: with the pair statistics of the battles themselves, every p_upper
\* and p_lower that enters the running products is a defined number greater
\* than 0, and no judge is flagged through a product that is infinite.
C15_TailProbabilitiesPositive ==
    (out_battles # <<>> /\ out_stats = OwnStats(out_battles)) =>
        /\ \A i \in DOMAIN out_p_upper : DefinedPositive(out_p_upper[i])
        /\ \A i \in DOMAIN out_p_lower : DefinedPositive(out_p_lower[i])

====
